---- MODULE Spec2Model ----
(***************************************************************************)
(* A model of convert-poems.py: the scan of a document's paragraphs into   *)
(* front matter and poem records, and the writing of one Markdown file per *)
(* retained poem.                                                          *)
(*                                                                         *)
(* A Python str is modelled as a sequence of one-character strings, so     *)
(* that strip, the regular expressions, replace, slicing and zfill are     *)
(* computed character by character.                                        *)
(***************************************************************************)
EXTENDS Integers, Sequences, FiniteSets, TLC

VARIABLES
    input_exists,      \* os.path.exists(INPUT_FILE)
    doc,               \* doc.paragraphs: the raw text of each paragraph
    dir_exists,        \* whether OUTPUT_FOLDER exists
    files,             \* OUTPUT_FOLDER: file name -> file content
    console,           \* what print() has written, in order
    pc,                \* where convert_word_to_md is
    i,                 \* index in doc of the paragraph the scan loop is at
    poems,             \* the local list poems
    front_matter,      \* the local list front_matter
    current_poem,      \* the local current_poem (NoPoem for None)
    first_poem_found,  \* the local first_poem_found
    w,                 \* index in poems of the poem the write loop is at
    saved_count,       \* the local saved_count
    run,               \* which invocation of the script this is
    prev_files,        \* OUTPUT_FOLDER as it was when this invocation began
    fn_in,             \* argument of a function called on its own
    fn_out             \* what that call returned

vars == <<input_exists, doc, dir_exists, files, console, pc, i, poems,
          front_matter, current_poem, first_poem_found, w, saved_count,
          run, prev_files, fn_in, fn_out>>

----------------------------------------------------------------------------
(* Bounds of the model *)

MaxParas == 4
MaxLen == 4
MaxTitleLen == 3

----------------------------------------------------------------------------
(* Python values *)

\* None, as a value comparable with strings: no string holds this element.
None == <<"None">>

AUTHOR_NAME == <<"U","r","a","n","g","a","n","i"," ","T",".","M">>

INPUT_FILE == <<"R","e","a","l","i","t","y","-","a","-","c","o","l","o","r",
                "f","u","l","-","i","l","l","u","s","i","o","n",".","d","o",
                "c","x">>

\* What str.strip() strips and the regular expression class \s matches.
Whitespace == {" ", "\t", "\n", "\r", "\f"}

\* The regular expression class \d.
Digit == {"0","1","2","3","4","5","6","7","8","9"}

\* The character class [<>:"/\\|?*] of sanitize_filename.
InvalidChars == {"<", ">", ":", "\"", "/", "\\", "|", "?", "*"}

TitleLimit == 50
PadWidth == 3

RECURSIVE lstrip(_)
lstrip(s) ==
    IF s = <<>> THEN s
    ELSE IF Head(s) \in Whitespace THEN lstrip(Tail(s)) ELSE s

RECURSIVE rstrip(_)
rstrip(s) ==
    IF s = <<>> THEN s
    ELSE IF s[Len(s)] \in Whitespace THEN rstrip(SubSeq(s, 1, Len(s) - 1))
    ELSE s

\* str.strip()
strip(s) == rstrip(lstrip(s))

\* re.match(r'^\s*\d+\.?\s*$', text), by the state of the match:
\*   "lead"  in \s*, no digit seen      "digits" in \d+
\*   "dot"   just after \.              "trail"  in the closing \s*
\* The three classes are disjoint, so the match never has to backtrack.
RECURSIVE re_match_number(_, _)
re_match_number(s, st) ==
    IF s = <<>> THEN st # "lead"
    ELSE LET c == Head(s) IN
         CASE st = "lead" ->
                IF c \in Whitespace THEN re_match_number(Tail(s), "lead")
                ELSE IF c \in Digit THEN re_match_number(Tail(s), "digits")
                ELSE FALSE
           [] st = "digits" ->
                IF c \in Digit THEN re_match_number(Tail(s), "digits")
                ELSE IF c = "." THEN re_match_number(Tail(s), "dot")
                ELSE IF c \in Whitespace THEN re_match_number(Tail(s), "trail")
                ELSE FALSE
           [] st = "dot" ->
                IF c \in Whitespace THEN re_match_number(Tail(s), "trail")
                ELSE FALSE
           [] OTHER ->
                IF c \in Whitespace THEN re_match_number(Tail(s), "trail")
                ELSE FALSE

\* is_poem_number with the closing $ forgotten: a match of a prefix is enough.
is_poem_number_unanchored(text) ==
    LET t == lstrip(text) IN t # <<>> /\ Head(t) \in Digit

is_poem_number(text) == re_match_number(text, "lead")

RECURSIVE take_digits(_)
take_digits(s) ==
    IF s = <<>> \/ Head(s) \notin Digit THEN <<>>
    ELSE <<Head(s)>> \o take_digits(Tail(s))

\* re.search(r'\d+', text).group(): the leftmost, longest run of digits.
\* (None when there is no digit; the code calls it on markers only.)
RECURSIVE re_search_digits(_)
re_search_digits(s) ==
    IF s = <<>> THEN None
    ELSE IF Head(s) \in Digit THEN take_digits(s)
    ELSE re_search_digits(Tail(s))

\* re.sub(r'[<>:"/\\|?*]', '', title)
RECURSIVE re_sub_invalid(_)
re_sub_invalid(s) ==
    IF s = <<>> THEN <<>>
    ELSE IF Head(s) \in InvalidChars THEN re_sub_invalid(Tail(s))
    ELSE <<Head(s)>> \o re_sub_invalid(Tail(s))

\* str.replace(' ', '_')
replace_spaces(s) == [k \in 1..Len(s) |-> IF s[k] = " " THEN "_" ELSE s[k]]

\* s[:n]
prefix(s, n) == SubSeq(s, 1, IF Len(s) < n THEN Len(s) ELSE n)

Untitled == <<"U","n","t","i","t","l","e","d">>

\* sanitize_filename without the slice [:50].
sanitize_filename_untruncated(title) ==
    IF title = None \/ title = <<>> THEN Untitled
    ELSE replace_spaces(strip(re_sub_invalid(title)))

sanitize_filename(title) ==
    IF title = None \/ title = <<>> THEN Untitled
    ELSE prefix(replace_spaces(strip(re_sub_invalid(title))), TitleLimit)

\* str.zfill(width) of a string of digits
zfill(s, width) ==
    IF Len(s) >= width THEN s
    ELSE [k \in 1..(width - Len(s)) |-> "0"] \o s

\* filename = f"{poem['number'].zfill(3)}_{clean_title}.md"
poem_filename(poem) ==
    zfill(poem.number, PadWidth) \o <<"_">> \o sanitize_filename(poem.title)
        \o <<".","m","d">>

----------------------------------------------------------------------------
(* What the writer writes *)

\* The file name of the front matter, "00_Front_Matter.md".
FrontMatterName ==
    <<"0","0","_","F","r","o","n","t","_","M","a","t","t","e","r",".","m","d">>

\* f.write(f"{line}  \n")
hard_break(line) == line \o <<" ", " ", "\n">>

RECURSIVE front_matter_lines(_)
front_matter_lines(ls) ==
    IF ls = <<>> THEN <<>>
    ELSE hard_break(Head(ls)) \o front_matter_lines(Tail(ls))

\* Everything written to 00_Front_Matter.md.
front_matter_content(fm) ==
    <<"#"," ","F","r","o","n","t"," ","M","a","t","t","e","r","\n","\n">>
        \o front_matter_lines(fm)

\* The metadata block: the four f.write calls between the two "---" lines.
poem_header(poem) ==
    <<"-","-","-","\n">>
    \o <<"t","i","t","l","e",":"," ","\"">>
    \o (IF poem.title = None \/ poem.title = <<>> THEN Untitled ELSE poem.title)
    \o <<"\"","\n">>
    \o <<"a","u","t","h","o","r",":"," ","\"">> \o AUTHOR_NAME \o <<"\"","\n">>
    \o <<"i","d",":"," ">> \o poem.number \o <<"\n">>
    \o <<"-","-","-","\n","\n">>

\* display_title and the heading line.
poem_heading(poem) ==
    <<"#"," ">>
    \o (IF poem.title = None \/ poem.title = <<>>
        THEN <<"P","o","e","m"," ">> \o poem.number
        ELSE poem.title)
    \o <<"\n","\n">>

\* body_line writing the trimmed text: the indentation is lost.
body_line_stripped(line) ==
    IF strip(line) = <<>> THEN <<"\n">> ELSE hard_break(strip(line))

\* One pass of the body loop: a stanza break, or the line with a hard break.
body_line(line) == IF strip(line) = <<>> THEN <<"\n">> ELSE hard_break(line)

RECURSIVE poem_body(_)
poem_body(ls) ==
    IF ls = <<>> THEN <<>> ELSE body_line(Head(ls)) \o poem_body(Tail(ls))

\* poem_signature with a newline written after the signature.
poem_signature_with_newline(poem) ==
    IF poem.has_author_sig
    THEN <<"\n","\n","*">> \o AUTHOR_NAME \o <<"*","\n">>
    ELSE <<>>

\* f.write(f"\n\n*{AUTHOR_NAME}*") when the signature was found.
poem_signature(poem) ==
    IF poem.has_author_sig
    THEN <<"\n","\n","*">> \o AUTHOR_NAME \o <<"*">>
    ELSE <<>>

\* Everything written to a poem's file.
poem_content(poem) ==
    poem_header(poem) \o poem_heading(poem) \o poem_body(poem.lines)
        \o poem_signature(poem)

\* is_empty_entry as "not poem['lines']": lines of whitespace count as content.
is_empty_entry_no_lines(poem) == poem.lines = <<>>

\* not any(line.strip() for line in poem['lines'])
is_empty_entry(poem) == \A k \in 1..Len(poem.lines) : strip(poem.lines[k]) = <<>>

\* write_file with the file opened in mode 'a': what was there stays.
write_file_append(fs, name, content) ==
    [n \in DOMAIN fs \cup {name} |->
        IF n = name THEN (IF n \in DOMAIN fs THEN fs[n] ELSE <<>>) \o content
        ELSE fs[n]]

\* with open(path, 'w') as f: f.write(...): the file is created or truncated and
\* holds what was written.
write_file(fs, name, content) ==
    [n \in DOMAIN fs \cup {name} |-> IF n = name THEN content ELSE fs[n]]

----------------------------------------------------------------------------
(* The state of the scan *)

\* current_poem = None
NoPoem == [number |-> None, title |-> None, lines |-> <<>>, has_author_sig |-> FALSE]

\* new_poem keeping the number as the file name has it, padded.
new_poem_padded(num) ==
    [number |-> zfill(num, PadWidth), title |-> None, lines |-> <<>>,
     has_author_sig |-> FALSE]

\* The dict a marker creates.
new_poem(num) == [number |-> num, title |-> None, lines |-> <<>>, has_author_sig |-> FALSE]

\* finalize without the test "if current_poem".
finalize_always(ps, cur) == Append(ps, cur)

\* if current_poem: poems.append(current_poem)
finalize(ps, cur) == IF cur # NoPoem THEN Append(ps, cur) ELSE ps

\* text = para.text.strip()
text_of(para) == strip(para)

\* collect_front_matter as "if text:": no blank paragraph is ever kept.
collect_front_matter_text_only(fm, para) ==
    IF text_of(para) # <<>> THEN Append(fm, para) ELSE fm

\* if text or front_matter: front_matter.append(para.text)
collect_front_matter(fm, para) ==
    IF text_of(para) # <<>> \/ fm # <<>> THEN Append(fm, para) ELSE fm

\* add_content appending the trimmed text, not para.text.
add_content_trimmed(cur, para) ==
    [cur EXCEPT !.title = IF cur.title = None /\ text_of(para) # <<>>
                          THEN text_of(para) ELSE @,
                !.lines = Append(@, text_of(para))]

\* add_content taking para.text, not the trimmed text, as the title.
add_content_raw_title(cur, para) ==
    [cur EXCEPT !.title = IF cur.title = None /\ text_of(para) # <<>>
                          THEN para ELSE @,
                !.lines = Append(@, para)]

\* add_content with the test "title is None" forgotten: every non-blank line
\* replaces the title.
add_content_last_title(cur, para) ==
    [cur EXCEPT !.title = IF text_of(para) # <<>> THEN text_of(para) ELSE @,
                !.lines = Append(@, para)]

\* if current_poem['title'] is None and text: current_poem['title'] = text
\* current_poem['lines'].append(para.text)
add_content(cur, para) ==
    [cur EXCEPT !.title = IF cur.title = None /\ text_of(para) # <<>>
                          THEN text_of(para) ELSE @,
                !.lines = Append(@, para)]

\* is_signature comparing para.text, not the trimmed text.
is_signature_raw(para) == para = AUTHOR_NAME

\* if text == AUTHOR_NAME
is_signature(para) == text_of(para) = AUTHOR_NAME

\* current_poem['has_author_sig'] = True; continue
mark_signature(cur) == [cur EXCEPT !.has_author_sig = TRUE]

----------------------------------------------------------------------------
(* The documents and output folders the model starts from *)

Paragraphs ==
    { <<>>,                         \* an empty paragraph
      <<" ">>,                      \* a paragraph of whitespace
      <<"1">>,                      \* a marker
      <<" ","0",".">>,              \* a marker with padding and a period
      <<"a">>,                      \* a line
      <<" ","a",":">>,              \* an indented line
      <<" ">> \o AUTHOR_NAME }      \* the signature, indented

\* The document of the end-to-end scenario.
ScenarioDoc ==
    << <<"I","n","t","r","o"," ","t","e","x","t">>,
       <<>>,
       <<"1">>,
       <<"F","i","r","s","t">>,
       <<"h","e","l","l","o"," ","w","o","r","l","d">>,
       <<>>,
       AUTHOR_NAME,
       <<"2">>,
       <<"S","e","c","o","n","d">>,
       <<"g","o","o","d","b","y","e">> >>

SeqsUpTo(S, n) == UNION { [1..k -> S] : k \in 0..n }

Docs == SeqsUpTo(Paragraphs, MaxParas) \cup {ScenarioDoc}

EmptyDir == [n \in {} |-> <<>>]

\* A folder left by an earlier run on another document.
StaleDir == [n \in {<<"0","0","1","_","a",".","m","d">>} |-> <<"o","l","d">>]

Message(kind, arg) == [kind |-> kind, arg |-> arg]

Locals ==
    /\ i = 1
    /\ poems = <<>>
    /\ front_matter = <<>>
    /\ current_poem = NoPoem
    /\ first_poem_found = FALSE
    /\ w = 1
    /\ saved_count = 0

Init ==
    /\ input_exists \in BOOLEAN
    /\ doc \in (IF input_exists THEN Docs ELSE {<<>>})
    /\ dir_exists \in BOOLEAN
    /\ files \in (IF dir_exists THEN {EmptyDir, StaleDir} ELSE {EmptyDir})
    /\ console = <<>>
    /\ pc = "start"
    /\ Locals
    /\ run = 1
    /\ prev_files = files
    /\ fn_in = <<>>
    /\ fn_out = <<>>

----------------------------------------------------------------------------
(* convert_word_to_md, step by step *)

io_vars == <<input_exists, doc>>
fn_vars == <<fn_in, fn_out>>
scan_vars == <<i, poems, front_matter, current_poem, first_poem_found>>

\* StartMissing with os.makedirs called before the test of the input file.
StartMissing_makedirs_first ==
    /\ pc = "start"
    /\ ~input_exists
    /\ dir_exists' = TRUE
    /\ console' = Append(console, Message("Error", INPUT_FILE))
    /\ pc' = "done"
    /\ UNCHANGED <<input_exists, doc, fn_in, fn_out, i, poems, front_matter,
                   current_poem, first_poem_found, files, w, saved_count, run,
                   prev_files>>

\* if not os.path.exists(INPUT_FILE): print(...); return
StartMissing ==
    /\ pc = "start"
    /\ ~input_exists
    /\ console' = Append(console, Message("Error", INPUT_FILE))
    /\ pc' = "done"
    /\ UNCHANGED <<io_vars, fn_vars, scan_vars, dir_exists, files, w,
                   saved_count, run, prev_files>>

\* os.makedirs(OUTPUT_FOLDER, exist_ok=True); doc = Document(INPUT_FILE); the
\* locals are set up.
StartLoad ==
    /\ pc = "start"
    /\ input_exists
    /\ dir_exists' = TRUE
    /\ console' = Append(console, Message("Reading", INPUT_FILE))
    /\ pc' = "scan"
    /\ UNCHANGED <<io_vars, fn_vars, scan_vars, files, w, saved_count, run,
                   prev_files>>

InScan == pc = "scan" /\ i <= Len(doc)

\* ScanMarker without line 49: first_poem_found is never set.
ScanMarker_flag_not_set ==
    /\ pc = "scan" /\ i <= Len(doc)
    /\ is_poem_number(text_of(doc[i]))
    /\ poems' = finalize(poems, current_poem)
    /\ current_poem' = new_poem(re_search_digits(text_of(doc[i])))
    /\ i' = i + 1
    /\ UNCHANGED <<input_exists, doc, fn_in, fn_out, front_matter,
                   first_poem_found, dir_exists, files, console, pc, w,
                   saved_count, run, prev_files>>

\* 1. Detect Poem Number
ScanMarker ==
    /\ InScan
    /\ is_poem_number(text_of(doc[i]))
    /\ poems' = finalize(poems, current_poem)
    /\ first_poem_found' = TRUE
    /\ current_poem' = new_poem(re_search_digits(text_of(doc[i])))
    /\ i' = i + 1
    /\ UNCHANGED <<io_vars, fn_vars, front_matter, dir_exists, files, console,
                   pc, w, saved_count, run, prev_files>>

\* 2. Collect Front Matter
ScanFrontMatter ==
    /\ InScan
    /\ ~is_poem_number(text_of(doc[i]))
    /\ ~first_poem_found
    /\ front_matter' = collect_front_matter(front_matter, doc[i])
    /\ i' = i + 1
    /\ UNCHANGED <<io_vars, fn_vars, poems, current_poem, first_poem_found,
                   dir_exists, files, console, pc, w, saved_count, run,
                   prev_files>>

\* 3. Process Poem Content: the author signature
ScanAuthorSig ==
    /\ InScan
    /\ ~is_poem_number(text_of(doc[i]))
    /\ first_poem_found
    /\ current_poem # NoPoem
    /\ is_signature(doc[i])
    /\ current_poem' = mark_signature(current_poem)
    /\ i' = i + 1
    /\ UNCHANGED <<io_vars, fn_vars, poems, front_matter, first_poem_found,
                   dir_exists, files, console, pc, w, saved_count, run,
                   prev_files>>

\* 3. Process Poem Content: any other paragraph
ScanContent ==
    /\ InScan
    /\ ~is_poem_number(text_of(doc[i]))
    /\ first_poem_found
    /\ current_poem # NoPoem
    /\ ~is_signature(doc[i])
    /\ current_poem' = add_content(current_poem, doc[i])
    /\ i' = i + 1
    /\ UNCHANGED <<io_vars, fn_vars, poems, front_matter, first_poem_found,
                   dir_exists, files, console, pc, w, saved_count, run,
                   prev_files>>

\* ScanEnd without lines 80-81: the last poem is never appended.
ScanEnd_last_poem_lost ==
    /\ pc = "scan"
    /\ i > Len(doc)
    /\ pc' = "write_fm"
    /\ UNCHANGED <<input_exists, doc, fn_in, fn_out, i, poems, front_matter,
                   current_poem, first_poem_found, dir_exists, files, console,
                   w, saved_count, run, prev_files>>

\* The loop is over: add the last poem in the document.
ScanEnd ==
    /\ pc = "scan"
    /\ i > Len(doc)
    /\ poems' = finalize(poems, current_poem)
    /\ pc' = "write_fm"
    /\ UNCHANGED <<io_vars, fn_vars, i, front_matter, current_poem,
                   first_poem_found, dir_exists, files, console, w,
                   saved_count, run, prev_files>>

\* Save Front Matter
SaveFrontMatter ==
    /\ pc = "write_fm"
    /\ front_matter # <<>>
    /\ files' = write_file(files, FrontMatterName, front_matter_content(front_matter))
    /\ console' = Append(console, Message("Saved", FrontMatterName))
    /\ pc' = "write_poems"
    /\ UNCHANGED <<io_vars, fn_vars, scan_vars, dir_exists, w, saved_count,
                   run, prev_files>>

NoFrontMatter ==
    /\ pc = "write_fm"
    /\ front_matter = <<>>
    /\ pc' = "write_poems"
    /\ UNCHANGED <<io_vars, fn_vars, scan_vars, dir_exists, files, console, w,
                   saved_count, run, prev_files>>

InWrite == pc = "write_poems" /\ w <= Len(poems)

\* Skip empty entries
SkipPoem ==
    /\ InWrite
    /\ is_empty_entry(poems[w])
    /\ w' = w + 1
    /\ UNCHANGED <<io_vars, fn_vars, scan_vars, dir_exists, files, console, pc,
                   saved_count, run, prev_files>>

SavePoem ==
    /\ InWrite
    /\ ~is_empty_entry(poems[w])
    /\ files' = write_file(files, poem_filename(poems[w]), poem_content(poems[w]))
    /\ console' = Append(console, Message("Saved", poem_filename(poems[w])))
    /\ saved_count' = saved_count + 1
    /\ w' = w + 1
    /\ UNCHANGED <<io_vars, fn_vars, scan_vars, dir_exists, pc, run, prev_files>>

\* print(f"... Finished! Processed {saved_count} poems ...")
Finish ==
    /\ pc = "write_poems"
    /\ w > Len(poems)
    /\ console' = Append(console, Message("Finished", <<saved_count>>))
    /\ pc' = "done"
    /\ UNCHANGED <<io_vars, fn_vars, scan_vars, dir_exists, files, w,
                   saved_count, run, prev_files>>

Next ==
    \/ StartMissing
    \/ StartLoad
    \/ ScanMarker
    \/ ScanFrontMatter
    \/ ScanAuthorSig
    \/ ScanContent
    \/ ScanEnd
    \/ SaveFrontMatter
    \/ NoFrontMatter
    \/ SkipPoem
    \/ SavePoem
    \/ Finish

Spec == Init /\ [][Next]_vars

----------------------------------------------------------------------------
(* The script run a second time on the same document and output folder *)

Rerun ==
    /\ pc = "done"
    /\ run = 1
    /\ run' = 2
    /\ prev_files' = files
    /\ console' = <<>>
    /\ pc' = "start"
    /\ i' = 1
    /\ poems' = <<>>
    /\ front_matter' = <<>>
    /\ current_poem' = NoPoem
    /\ first_poem_found' = FALSE
    /\ w' = 1
    /\ saved_count' = 0
    /\ UNCHANGED <<io_vars, fn_vars, dir_exists, files>>

NextTwice == Next \/ Rerun

SpecTwice == Init /\ [][NextTwice]_vars

----------------------------------------------------------------------------
(* is_poem_number and the extraction of the number, called on any string *)

MarkerAlphabet == {"0", "1", ".", " ", "\t", "a"}

\* Nothing of a run is going on while a function is called on its own.
Idle ==
    /\ input_exists = FALSE
    /\ doc = <<>>
    /\ dir_exists = FALSE
    /\ files = EmptyDir
    /\ console = <<>>
    /\ Locals
    /\ run = 1
    /\ prev_files = EmptyDir

run_vars == <<io_vars, scan_vars, dir_exists, files, console, w, saved_count,
              run, prev_files>>

InitMarker ==
    /\ Idle
    /\ pc = "marker_call"
    /\ fn_in \in SeqsUpTo(MarkerAlphabet, MaxLen)
    /\ fn_out = <<>>

\* if is_poem_number(text): ... num = re.search(r'\d+', text).group()
CallIsPoemNumber ==
    /\ pc = "marker_call"
    /\ fn_out' = [matched |-> is_poem_number(fn_in),
                  num |-> IF is_poem_number(fn_in)
                          THEN re_search_digits(fn_in) ELSE None]
    /\ pc' = "marker_done"
    /\ UNCHANGED <<run_vars, fn_in>>

SpecMarker == InitMarker /\ [][CallIsPoemNumber]_vars

----------------------------------------------------------------------------
(* The file name of a poem, computed for any number and title *)

TitleAlphabet == InvalidChars \cup {"a", " ", "\t"}

\* The title of the example: My: Poem/Title?
ExampleTitle == <<"M","y",":"," ","P","o","e","m","/","T","i","t","l","e","?">>

\* A title that is longer than the limit also without its invalid characters.
LongTitle ==
    [k \in 1..(TitleLimit + 10) |->
        IF k % 7 = 0 THEN ":" ELSE IF k % 5 = 0 THEN " " ELSE "a"]

Titles ==
    SeqsUpTo(TitleAlphabet, MaxTitleLen) \cup {None, ExampleTitle, LongTitle}

Numbers == { <<"7">>, <<"4","2">>, <<"1","2","3">>, <<"1","2","3","4">> }

InitFilename ==
    /\ Idle
    /\ pc = "name_call"
    /\ fn_in \in [number : Numbers, title : Titles]
    /\ fn_out = <<>>

\* clean_title = sanitize_filename(poem['title']); filename = ...
ComputeFilename ==
    /\ pc = "name_call"
    /\ fn_out' = [clean_title |-> sanitize_filename(fn_in.title),
                  filename |-> poem_filename(fn_in)]
    /\ pc' = "name_done"
    /\ UNCHANGED <<run_vars, fn_in>>

SpecFilename == InitFilename /\ [][ComputeFilename]_vars

\* The types of the state.
TypeOK ==
    /\ pc \in {"start", "scan", "write_fm", "write_poems", "done",
              "marker_call", "marker_done", "name_call", "name_done"}
    /\ i \in 1..(Len(doc) + 1)
    /\ w \in 1..(Len(poems) + 1)
    /\ first_poem_found \in BOOLEAN
    /\ first_poem_found <=> current_poem # NoPoem
    /\ saved_count \in 0..Len(poems)
    /\ run \in {1, 2}

----------------------------------------------------------------------------
(* The document, as the claims speak of it *)

Min(S) == CHOOSE x \in S : \A y \in S : x <= y
Max(S) == CHOOSE x \in S : \A y \in S : x >= y

\* A string with nothing in it but whitespace.
IsBlank(s) == \A k \in 1..Len(s) : s[k] \in Whitespace

\* The string from its first to its last character that is not whitespace.
Trimmed(s) ==
    LET solid == {k \in 1..Len(s) : s[k] \notin Whitespace}
    IN  IF solid = {} THEN <<>> ELSE SubSeq(s, Min(solid), Max(solid))

IsSignaturePara(para) == Trimmed(para) = AUTHOR_NAME

\* The places of the marker paragraphs of a document.
Markers(d) == {k \in 1..Len(d) : is_poem_number(Trimmed(d[k]))}

\* The place of the k-th marker.
KthMarker(d, k) ==
    CHOOSE m \in Markers(d) : Cardinality({x \in Markers(d) : x <= m}) = k

\* The paragraphs of the poem whose marker is at m: up to the next marker or the
\* end of the document.
Span(d, m) ==
    LET later == {x \in Markers(d) : x > m}
    IN  (m + 1)..((IF later = {} THEN Len(d) + 1 ELSE Min(later)) - 1)

\* The paragraphs of the poem being accumulated that the scan has been through.
CurrentSpan == (Max({x \in Markers(doc) : x < i}) + 1)..(i - 1)

Scanned == pc \in {"write_fm", "write_poems", "done"}

----------------------------------------------------------------------------
(* C1 *)

\* The title the claim names: of the paragraphs before the poem's first
\* signature, the first that is not blank.
TitleBeforeSignature(d, m) ==
    LET sigs == {j \in Span(d, m) : IsSignaturePara(d[j])}
        cand == {j \in Span(d, m) :
                    /\ ~IsBlank(d[j])
                    /\ \A g \in sigs : j < g}
    IN  IF cand = {} THEN None ELSE Trimmed(d[Min(cand)])

\* The title the code gives: the first paragraph that is neither blank nor a
\* signature, wherever the signatures are.
TitleSkippingSignatures(d, m) ==
    LET cand == {j \in Span(d, m) : ~IsBlank(d[j]) /\ ~IsSignaturePara(d[j])}
    IN  IF cand = {} THEN None ELSE Trimmed(d[Min(cand)])

\* C1 as stated: every poem's title is the trimmed text of the first non-blank
\* paragraph after its marker and before any author-signature paragraph, and
\* None when there is no such paragraph.
C1_TitleBeforeAnySignature ==
    \A k \in 1..Len(poems) :
        poems[k].title = TitleBeforeSignature(doc, KthMarker(doc, k))

\* C1 as amended: every poem's title is the trimmed text of the first paragraph
\* of the poem that is neither blank nor an author signature, also when a
\* signature comes before it, and None when the poem has no such paragraph.
C1_TitleIsFirstContentLine ==
    \A k \in 1..Len(poems) :
        poems[k].title = TitleSkippingSignatures(doc, KthMarker(doc, k))

\* A finished run with a poem titled by an indented line that follows the poem's
\* signature.
C1_Witness ==
    /\ pc = "done"
    /\ \E k \in 1..Len(poems) :
         LET sp == Span(doc, KthMarker(doc, k))
         IN  /\ poems[k].title # None
             /\ \E g \in sp, j \in sp :
                   /\ g < j
                   /\ IsSignaturePara(doc[g])
                   /\ Trimmed(doc[j]) = poems[k].title
                   /\ doc[j] # poems[k].title
                   /\ \A h \in sp : h < j => IsBlank(doc[h]) \/ IsSignaturePara(doc[h])

----------------------------------------------------------------------------
(* C2 *)

\* The file names of the poems of ps that have a line with content, in order.
RECURSIVE RetainedNames(_)
RetainedNames(ps) ==
    IF ps = <<>> THEN <<>>
    ELSE (IF \A l \in 1..Len(Head(ps).lines) : IsBlank(Head(ps).lines[l])
          THEN <<>> ELSE <<poem_filename(Head(ps))>>)
         \o RetainedNames(Tail(ps))

\* The names of the poem files the run has reported saved, in order.
RECURSIVE SavedPoemNames(_)
SavedPoemNames(msgs) ==
    IF msgs = <<>> THEN <<>>
    ELSE (IF Head(msgs).kind = "Saved" /\ Head(msgs).arg # FrontMatterName
          THEN <<Head(msgs).arg>> ELSE <<>>)
         \o SavedPoemNames(Tail(msgs))

\* C2: a poem whose lines are all blank (or that has no lines) never produces a
\* file, and every poem with a line of content is written to its file name: the
\* files written so far are those of the poems with content the write loop has
\* passed, one write each, in order, and each is in the output folder.
C2_OnlyPoemsWithContentAreWritten ==
    pc \in {"write_poems", "done"} =>
        /\ SavedPoemNames(console) = RetainedNames(SubSeq(poems, 1, w - 1))
        /\ \A k \in 1..(w - 1) :
              (\E l \in 1..Len(poems[k].lines) : ~IsBlank(poems[k].lines[l]))
                  => poem_filename(poems[k]) \in DOMAIN files

\* A finished run with a poem of whitespace lines, which was skipped, and a poem
\* with content, which was written.
C2_Witness ==
    /\ pc = "done"
    /\ \E k \in 1..Len(poems) :
         /\ poems[k].lines # <<>>
         /\ \A l \in 1..Len(poems[k].lines) : IsBlank(poems[k].lines[l])
    /\ saved_count = 1

----------------------------------------------------------------------------
(* C3 *)

\* What the claim says of one poem, given the paragraphs of it that were scanned.
SignatureHandled(p, span) ==
    /\ p.has_author_sig <=> \E j \in span : IsSignaturePara(doc[j])
    /\ \A l \in 1..Len(p.lines) : ~IsSignaturePara(p.lines[l])
    /\ Len(p.lines) = Cardinality({j \in span : ~IsSignaturePara(doc[j])})

\* C3: a paragraph whose trimmed text is the author name sets hasAuthorSignature
\* of the poem being accumulated and is not appended to its lines, so no line of
\* any poem is a signature; hasAuthorSignature is true only if such a paragraph
\* lies between the poem's marker and the next marker or the end of input.
C3_SignatureSetsFlagAndIsNotALine ==
    /\ \A k \in 1..Len(poems) :
          SignatureHandled(poems[k], Span(doc, KthMarker(doc, k)))
    /\ (pc = "scan" /\ current_poem # NoPoem) =>
          SignatureHandled(current_poem, CurrentSpan)

\* A finished run with a poem that has lines and an indented signature, and a
\* poem without one.
C3_Witness ==
    /\ pc = "done"
    /\ \E k \in 1..Len(poems) :
         /\ poems[k].has_author_sig
         /\ poems[k].lines # <<>>
         /\ \E j \in Span(doc, KthMarker(doc, k)) :
               IsSignaturePara(doc[j]) /\ doc[j] # AUTHOR_NAME
    /\ \E k \in 1..Len(poems) : ~poems[k].has_author_sig

----------------------------------------------------------------------------
(* C4 *)

\* The poems the writer retains: those with a line of content.
Retained == {k \in 1..Len(poems) : \E l \in 1..Len(poems[k].lines) :
                                       ~IsBlank(poems[k].lines[l])}

\* The poem files the run has written.
PoemFilesWritten ==
    {console[c].arg : c \in {x \in 1..Len(console) :
        console[x].kind = "Saved" /\ console[x].arg # FrontMatterName}}

\* C4: after the write phase the number of distinct poem files written equals
\* the number of retained poems: no two retained poems compute the same file
\* name and overwrite each other.
C4_OneFilePerRetainedPoem ==
    pc = "done" => Cardinality(PoemFilesWritten) = Cardinality(Retained)

----------------------------------------------------------------------------
(* C5 *)

\* The place of the first marker, or one past the end of the document.
FirstMarkerOrEnd(d) == IF Markers(d) = {} THEN Len(d) + 1 ELSE Min(Markers(d))

\* The raw paragraphs before place n, from the first that is not blank.
FromFirstSolid(d, n) ==
    LET solid == {j \in 1..(n - 1) : ~IsBlank(d[j])}
    IN  IF solid = {} THEN <<>> ELSE SubSeq(d, Min(solid), n - 1)

FrontMatterSaved ==
    \E c \in 1..Len(console) :
        console[c].kind = "Saved" /\ console[c].arg = FrontMatterName

\* C5: the front matter is the raw text of the paragraphs before the first
\* marker, without the leading run of blank paragraphs and with every later
\* paragraph, blank or not, kept in order (during the scan: of the paragraphs
\* scanned so far); the front-matter file is written iff it is not empty.
C5_FrontMatterIsThePreamble ==
    /\ front_matter =
          FromFirstSolid(doc, IF i < FirstMarkerOrEnd(doc) THEN i
                              ELSE FirstMarkerOrEnd(doc))
    /\ (pc \in {"write_poems", "done"} /\ input_exists) =>
          /\ FrontMatterSaved <=> front_matter # <<>>
          /\ front_matter # <<>> => FrontMatterName \in DOMAIN files
          /\ front_matter = <<>> => FrontMatterName \notin DOMAIN files

\* A finished run that dropped a leading blank paragraph, kept a later blank
\* one and an indented one as they were, and wrote the file.
C5_Witness ==
    /\ pc = "done"
    /\ Len(doc) = 4
    /\ IsBlank(doc[1])
    /\ Len(front_matter) = 3
    /\ front_matter[1] # Trimmed(front_matter[1])
    /\ IsBlank(front_matter[2])
    /\ IsBlank(front_matter[3])
    /\ FrontMatterName \in DOMAIN files

----------------------------------------------------------------------------
(* C6 *)

Solid(d) == {j \in 1..Len(d) : ~IsBlank(d[j])}

\* C6 as stated: without a marker no poem is produced and, when some paragraph
\* is not blank, all paragraphs of the input become front matter.
C6_AllParagraphsBecomeFrontMatter ==
    (Scanned /\ Markers(doc) = {}) =>
        /\ poems = <<>>
        /\ Solid(doc) # {} => front_matter = doc

\* C6 as amended: without a marker no poem is produced and, when some paragraph
\* is not blank, the paragraphs from the first non-blank one to the last
\* paragraph become front matter; the blank paragraphs before it are dropped.
C6_ParagraphsFromFirstSolidBecomeFrontMatter ==
    (Scanned /\ Markers(doc) = {}) =>
        /\ poems = <<>>
        /\ saved_count = 0
        /\ Solid(doc) # {} =>
              front_matter = SubSeq(doc, Min(Solid(doc)), Len(doc))

\* A finished run on a document without a marker that begins with two blank
\* paragraphs and goes on with content.
C6_Witness ==
    /\ pc = "done"
    /\ Markers(doc) = {}
    /\ Len(doc) = 4
    /\ IsBlank(doc[1]) /\ IsBlank(doc[2])
    /\ front_matter = <<doc[3], doc[4]>>
    /\ ~IsBlank(doc[3])

----------------------------------------------------------------------------
(* C7 *)

\* s is: p characters of whitespace, digits up to place q, a period or none up
\* to place r, and whitespace to the end.
IsNumberLine(s, p, q, r) ==
    /\ p < q /\ q <= r /\ r <= q + 1 /\ r <= Len(s)
    /\ \A j \in 1..p : s[j] \in Whitespace
    /\ \A j \in (p + 1)..q : s[j] \in Digit
    /\ r = q + 1 => s[r] = "."
    /\ \A j \in (r + 1)..Len(s) : s[j] \in Whitespace

\* C7: is_poem_number is true exactly of the strings that are optional
\* whitespace, one or more digits, an optional single period and optional
\* whitespace; the number extracted from such a string is its run of digits; a
\* string with a character that is no digit, period or whitespace is no marker.
C7_MarkerRecognition ==
    pc = "marker_done" =>
        LET s == fn_in
            n == Len(s)
        IN  /\ fn_out.matched <=>
                  \E p \in 0..n, q \in 0..n, r \in 0..n : IsNumberLine(s, p, q, r)
            /\ \A p \in 0..n, q \in 0..n, r \in 0..n :
                  IsNumberLine(s, p, q, r) => fn_out.num = SubSeq(s, p + 1, q)
            /\ ~fn_out.matched => fn_out.num = None
            /\ (\E j \in 1..n : s[j] \notin Digit \cup Whitespace \cup {"."})
                  => ~fn_out.matched

\* A marker of the longest kind was recognized: whitespace, a digit, a period,
\* whitespace.
C7_Witness ==
    /\ pc = "marker_done"
    /\ fn_out.matched
    /\ Len(fn_in) = 4
    /\ fn_in[1] \in Whitespace
    /\ fn_in[3] = "."
    /\ fn_in[4] \in Whitespace
    /\ fn_out.num = <<fn_in[2]>>

----------------------------------------------------------------------------
(* C8 *)

DigitSeq == <<"0","1","2","3","4","5","6","7","8","9">>

DigitValue(c) == (CHOOSE k \in 1..10 : DigitSeq[k] = c) - 1

\* The number a string of digits writes.
RECURSIVE NumericValue(_)
NumericValue(ds) ==
    IF ds = <<>> THEN 0
    ELSE 10 * NumericValue(SubSeq(ds, 1, Len(ds) - 1)) + DigitValue(ds[Len(ds)])

\* The first run of digits of a string that has a digit.
FirstDigitRun(s) ==
    LET p == Min({j \in 1..Len(s) : s[j] \in Digit})
        q == Max({j \in p..Len(s) : \A x \in p..j : s[x] \in Digit})
    IN  SubSeq(s, p, q)

\* The n-th line of a file.
LineOf(content, n) ==
    LET nl == {j \in 1..Len(content) : content[j] = "\n"}
        nth(k) == IF k = 0 THEN 0
                  ELSE CHOOSE j \in nl : Cardinality({x \in nl : x <= j}) = k
    IN  SubSeq(content, nth(n - 1) + 1, nth(n) - 1)

\* The write loop has just written the file of poem w - 1.
JustSaved == pc = "write_poems" /\ w > 1 /\ (w - 1) \in Retained

\* The id line of the file just written is the poem's number as the record holds it.
IdLineIsNumber ==
    JustSaved =>
        LineOf(files[poem_filename(poems[w - 1])], 4)
            = <<"i","d",":"," ">> \o poems[w - 1].number

\* C8 as stated: the number of every poem is a positive integer, at least 1,
\* equal to the numeric value of the first run of digits of its marker, and
\* the id written in the metadata block is that number, not padded.
C8_NumberIsPositive ==
    /\ \A k \in 1..Len(poems) :
          /\ NumericValue(poems[k].number) >= 1
          /\ NumericValue(poems[k].number)
                = NumericValue(FirstDigitRun(doc[KthMarker(doc, k)]))
    /\ IdLineIsNumber

\* C8 as amended: the number of every poem is the first run of digits of its
\* marker as written, a string of digits whose value is a non-negative integer
\* (0 for the marker "0."), and the id written in the metadata block is that
\* string unchanged, not padded.
C8_NumberIsTheDigitRun ==
    /\ \A k \in 1..Len(poems) :
          /\ poems[k].number = FirstDigitRun(doc[KthMarker(doc, k)])
          /\ NumericValue(poems[k].number) >= 0
    /\ (pc = "scan" /\ current_poem # NoPoem) =>
          current_poem.number = FirstDigitRun(doc[Max({x \in Markers(doc) : x < i})])
    /\ IdLineIsNumber

\* The file of a poem numbered 0, from a marker with padding and a period, has
\* just been written.
C8_Witness ==
    /\ JustSaved
    /\ poems[w - 1].number = <<"0">>
    /\ doc[KthMarker(doc, w - 1)] # <<"0">>
    /\ LineOf(files[poem_filename(poems[w - 1])], 4) = <<"i","d",":"," ","0">>

----------------------------------------------------------------------------
(* C9 *)

\* C9: the file name is the number with zeros in front up to width 3 (whole when
\* longer), an underscore, the sanitized title and ".md"; the sanitized title
\* has none of < > : " / \ | ? *, no space and at most 50 characters, and is
\* "Untitled" when there is no title; My: Poem/Title? with number 7 gives
\* 007_My_PoemTitle.md.
C9_FilenameShape ==
    pc = "name_done" =>
        LET num == fn_in.number
            clean == fn_out.clean_title
            f == fn_out.filename
            pad == IF Len(num) < 3 THEN 3 ELSE Len(num)
        IN  /\ Len(f) = pad + 1 + Len(clean) + 3
            /\ \A j \in 1..(pad - Len(num)) : f[j] = "0"
            /\ SubSeq(f, pad - Len(num) + 1, pad) = num
            /\ f[pad + 1] = "_"
            /\ SubSeq(f, pad + 2, pad + 1 + Len(clean)) = clean
            /\ SubSeq(f, Len(f) - 2, Len(f)) = <<".","m","d">>
            /\ \A j \in 1..Len(clean) :
                  clean[j] \notin {"<", ">", ":", "\"", "/", "\\", "|", "?", "*", " "}
            /\ Len(clean) <= 50
            /\ fn_in.title = None => clean = Untitled
            /\ (fn_in.title = ExampleTitle /\ num = <<"7">>) =>
                  f = <<"0","0","7","_","M","y","_","P","o","e","m","T","i","t",
                        "l","e",".","m","d">>

\* The file name of the example has been computed.
C9_Witness ==
    /\ pc = "name_done"
    /\ fn_in.title = ExampleTitle
    /\ fn_in.number = <<"7">>
    /\ fn_out.clean_title = <<"M","y","_","P","o","e","m","T","i","t","l","e">>

----------------------------------------------------------------------------
(* C10 *)

\* C10: a second run on the same input and output folder leaves the folder with
\* the same files and the same contents as the first run left it.
C10_SecondRunChangesNothing ==
    (run = 2 /\ pc = "done") => files = prev_files

\* A second run has ended that wrote the front matter over itself and a poem
\* over the file an earlier run had left.
C10_Witness ==
    /\ run = 2
    /\ pc = "done"
    /\ FrontMatterSaved
    /\ saved_count = 1
    /\ DOMAIN files = {FrontMatterName} \cup DOMAIN StaleDir

----------------------------------------------------------------------------
(* C11 *)

\* C11: when the input file does not exist, the run reports the error and ends,
\* without an exception and with the filesystem as it was: every step of such a
\* run is the one that prints the error and returns, no file is written and the
\* output folder is not created.
C11_MissingInputChangesNothing ==
    [][~input_exists =>
          /\ pc = "start" /\ pc' = "done"
          /\ console' = <<Message("Error", INPUT_FILE)>>
          /\ files' = files
          /\ dir_exists' = dir_exists
          /\ poems' = <<>> /\ front_matter' = <<>> /\ saved_count' = 0]_vars

\* A run without its input file has ended: the error is reported, and there is
\* still no output folder.
C11_Witness ==
    /\ ~input_exists
    /\ pc = "done"
    /\ console = <<Message("Error", INPUT_FILE)>>
    /\ ~dir_exists
    /\ files = EmptyDir

----------------------------------------------------------------------------
(* C12 *)

\* The place of the k-th newline of a file (0 for k = 0).
NewlineAt(content, k) ==
    LET nl == {j \in 1..Len(content) : content[j] = "\n"}
    IN  IF k = 0 THEN 0
        ELSE CHOOSE j \in nl : Cardinality({x \in nl : x <= j}) = k

\* What one element of lines is rendered as.
RenderedUnit(line) ==
    IF IsBlank(line) THEN <<"\n">> ELSE line \o <<" ", " ", "\n">>

\* The length of the rendering of the first k elements of ls.
RECURSIVE RenderedLength(_, _)
RenderedLength(ls, k) ==
    IF k = 0 THEN 0 ELSE RenderedLength(ls, k - 1) + Len(RenderedUnit(ls[k]))

\* Two newlines and the author name in single emphasis markers.
SignatureBlock == <<"\n", "\n", "*">> \o AUTHOR_NAME \o <<"*">>

EndsWith(content, tail) ==
    /\ Len(content) >= Len(tail)
    /\ SubSeq(content, Len(content) - Len(tail) + 1, Len(content)) = tail

\* C12: a written poem file is, in order, the metadata block, the heading line,
\* then one rendered unit per element of lines (a bare newline for a blank line,
\* else the raw line, two spaces and a newline); it ends with two newlines and
\* the author name in single emphasis markers, without a trailing newline, iff
\* hasAuthorSignature is true, wherever in the poem the signature paragraph was.
C12_FileLayout ==
    JustSaved =>
        LET p == poems[w - 1]
            c == files[poem_filename(p)]
            h == NewlineAt(c, 8)
            body_end == h + RenderedLength(p.lines, Len(p.lines))
        IN  /\ LineOf(c, 1) = <<"-","-","-">>
            /\ LineOf(c, 2) = <<"t","i","t","l","e",":"," ","\"">>
                  \o (IF p.title = None THEN Untitled ELSE p.title) \o <<"\"">>
            /\ LineOf(c, 3) = <<"a","u","t","h","o","r",":"," ","\"">>
                  \o AUTHOR_NAME \o <<"\"">>
            /\ LineOf(c, 4) = <<"i","d",":"," ">> \o p.number
            /\ LineOf(c, 5) = <<"-","-","-">>
            /\ LineOf(c, 6) = <<>>
            /\ LineOf(c, 7) = <<"#"," ">>
                  \o (IF p.title = None THEN <<"P","o","e","m"," ">> \o p.number
                      ELSE p.title)
            /\ LineOf(c, 8) = <<>>
            /\ Len(c) = body_end
                  + (IF p.has_author_sig THEN Len(SignatureBlock) ELSE 0)
            /\ \A k \in 1..Len(p.lines) :
                  SubSeq(c, h + RenderedLength(p.lines, k - 1) + 1,
                            h + RenderedLength(p.lines, k))
                      = RenderedUnit(p.lines[k])
            /\ p.has_author_sig =>
                  SubSeq(c, body_end + 1, Len(c)) = SignatureBlock
            /\ EndsWith(c, SignatureBlock) <=> p.has_author_sig

\* The file of a poem has just been written whose signature paragraph came
\* before its lines, an indented line and a blank one: the file ends with the
\* signature.
C12_Witness ==
    /\ JustSaved
    /\ poems[w - 1].has_author_sig
    /\ IsSignaturePara(doc[KthMarker(doc, w - 1) + 1])
    /\ Len(poems[w - 1].lines) = 2
    /\ poems[w - 1].lines[1] # Trimmed(poems[w - 1].lines[1])
    /\ IsBlank(poems[w - 1].lines[2])
    /\ EndsWith(files[poem_filename(poems[w - 1])], SignatureBlock)

----------------------------------------------------------------------------
(* C13 *)

S_First == <<"F","i","r","s","t">>
S_Second == <<"S","e","c","o","n","d">>
S_HelloWorld == <<"h","e","l","l","o"," ","w","o","r","l","d">>
S_Goodbye == <<"g","o","o","d","b","y","e">>
S_IntroText == <<"I","n","t","r","o"," ","t","e","x","t">>

Name_First == <<"0","0","1","_">> \o S_First \o <<".","m","d">>
Name_Second == <<"0","0","2","_">> \o S_Second \o <<".","m","d">>

\* 001_First.md, as the scenario has it.
File_First ==
    <<"-","-","-","\n","t","i","t","l","e",":"," ","\"","F","i","r","s",
      "t","\"","\n","a","u","t","h","o","r",":"," ","\"","U","r","a","n",
      "g","a","n","i"," ","T",".","M","\"","\n","i","d",":"," ","1","\n",
      "-","-","-","\n","\n","#"," ","F","i","r","s","t","\n","\n","F","i",
      "r","s","t"," "," ","\n","h","e","l","l","o"," ","w","o","r","l",
      "d"," "," ","\n","\n","\n","\n","*","U","r","a","n","g","a","n","i",
      " ","T",".","M","*">>

\* 002_Second.md
File_Second ==
    <<"-","-","-","\n","t","i","t","l","e",":"," ","\"","S","e","c","o",
      "n","d","\"","\n","a","u","t","h","o","r",":"," ","\"","U","r","a",
      "n","g","a","n","i"," ","T",".","M","\"","\n","i","d",":"," ","2",
      "\n","-","-","-","\n","\n","#"," ","S","e","c","o","n","d","\n",
      "\n","S","e","c","o","n","d"," "," ","\n","g","o","o","d","b","y",
      "e"," "," ","\n">>

\* 00_Front_Matter.md
File_FrontMatter ==
    <<"#"," ","F","r","o","n","t"," ","M","a","t","t","e","r","\n","\n",
      "I","n","t","r","o"," ","t","e","x","t"," "," ","\n"," "," ","\n">>

Contains(content, part) ==
    \E k \in 0..(Len(content) - Len(part)) :
        SubSeq(content, k + 1, k + Len(part)) = part

\* Every file the run has reported saved.
FilesWritten ==
    {console[c].arg : c \in {x \in 1..Len(console) : console[x].kind = "Saved"}}

\* What the scenario says of everything but the body of the second poem.
ScenarioCommon ==
    /\ FilesWritten = {FrontMatterName, Name_First, Name_Second}
    /\ DOMAIN files = FilesWritten \cup DOMAIN prev_files
    /\ Contains(files[FrontMatterName], S_IntroText)
    /\ Len(poems) = 2
    /\ poems[1].title = S_First
    /\ poems[1].lines = <<S_First, S_HelloWorld, <<>>>>
    /\ poems[1].has_author_sig
    /\ EndsWith(files[Name_First], SignatureBlock)
    /\ poems[2].title = S_Second
    /\ ~poems[2].has_author_sig
    /\ ~Contains(files[Name_Second], SignatureBlock)

\* C13 as stated: the scenario document yields a front matter file containing
\* "Intro text"; 001_First.md with title First, body lines First and hello
\* world, a stanza break and the trailing signature; 002_Second.md with title
\* Second, body line goodbye and no signature; and no other files.
C13_ScenarioSecondBodyIsGoodbye ==
    (doc = ScenarioDoc /\ pc = "done") =>
        /\ ScenarioCommon
        /\ poems[2].lines = <<S_Goodbye>>

\* C13 as amended: the same, with the body of the second poem being the lines
\* Second and goodbye (its title line is a body line, as in the first poem);
\* the three files hold exactly the texts File_FrontMatter, File_First and
\* File_Second.
C13_ScenarioSecondBodyHasTitleLine ==
    (doc = ScenarioDoc /\ pc = "done") =>
        /\ ScenarioCommon
        /\ poems[2].lines = <<S_Second, S_Goodbye>>
        /\ files[FrontMatterName] = File_FrontMatter
        /\ files[Name_First] = File_First
        /\ files[Name_Second] = File_Second

\* The run on the scenario document has ended with its three files written.
C13_Witness ==
    /\ doc = ScenarioDoc
    /\ pc = "done"
    /\ saved_count = 2
    /\ {FrontMatterName, Name_First, Name_Second} \subseteq DOMAIN files

----------------------------------------------------------------------------
(* C14 *)

\* The markers the scan has been through when it is at place n.
MarkersBefore(n) == {x \in Markers(doc) : x < n}

\* The record a marker paragraph starts.
FreshPoem(para) ==
    [number |-> FirstDigitRun(para), title |-> None, lines |-> <<>>,
     has_author_sig |-> FALSE]

\* p is the poem of the marker at m, as far as the paragraphs of span tell.
IsPoemOf(p, m, span) ==
    /\ p.number = FirstDigitRun(doc[m])
    /\ Len(p.lines) = Cardinality({j \in span : ~IsSignaturePara(doc[j])})
    /\ p.has_author_sig <=> \E j \in span : IsSignaturePara(doc[j])

\* C14: when the scan ends the poem collection holds exactly one record per
\* marker, in the order of the markers; each marker finalizes the poem being
\* accumulated, if any, and starts a poem with no lines, no title and no
\* signature; the last poem is finalized at the end of input; no poem is
\* appended twice and none is lost.
C14_OnePoemPerMarkerInOrder ==
    /\ pc \in {"start", "scan"} =>
          Len(poems) + (IF current_poem = NoPoem THEN 0 ELSE 1)
              = Cardinality(MarkersBefore(i))
    /\ (pc = "scan" /\ (i - 1) \in Markers(doc)) =>
          current_poem = FreshPoem(doc[i - 1])
    /\ (pc = "scan" /\ current_poem # NoPoem) =>
          IsPoemOf(current_poem, Max(MarkersBefore(i)), CurrentSpan)
    /\ Scanned => Len(poems) = Cardinality(Markers(doc))
    /\ \A k \in 1..Len(poems) :
          IsPoemOf(poems[k], KthMarker(doc, k), Span(doc, KthMarker(doc, k)))

\* A finished run on a document with three markers, the first two one after the
\* other: three poems, the first without lines, the second with some.
C14_Witness ==
    /\ pc = "done"
    /\ Cardinality(Markers(doc)) = 3
    /\ {1, 2} \subseteq Markers(doc)
    /\ Len(poems) = 3
    /\ poems[1].lines = <<>>
    /\ poems[2].lines # <<>>

----------------------------------------------------------------------------
(* C15 *)

\* The n-th smallest element of a set of places.
NthOf(S, n) == CHOOSE x \in S : Cardinality({y \in S : y <= x}) = n

\* The raw texts of the paragraphs of span that are no signature, in order.
BodyOf(span) ==
    LET keep == {j \in span : ~IsSignaturePara(doc[j])}
    IN  [n \in 1..Cardinality(keep) |-> doc[NthOf(keep, n)]]

RECURSIVE TotalLines(_)
TotalLines(ps) ==
    IF ps = <<>> THEN 0 ELSE Len(Head(ps).lines) + TotalLines(Tail(ps))

IsMarkerPara(para) == is_poem_number(Trimmed(para))

\* C15: the lines of each poem are the raw texts, in document order, of the
\* paragraphs between its marker and the next marker (or the end of input) that
\* are no author signature, the blank ones and the title line included; a marker
\* paragraph is in no poem's lines and not in the front matter; no paragraph is
\* in two poems or in both the front matter and a poem.
C15_LinesAreTheSpanWithoutSignatures ==
    /\ \A k \in 1..Len(poems) :
          /\ poems[k].lines = BodyOf(Span(doc, KthMarker(doc, k)))
          /\ \A l \in 1..Len(poems[k].lines) : ~IsMarkerPara(poems[k].lines[l])
    /\ (pc = "scan" /\ current_poem # NoPoem) =>
          current_poem.lines = BodyOf(CurrentSpan)
    /\ \A f \in 1..Len(front_matter) : ~IsMarkerPara(front_matter[f])
    /\ Scanned =>
          /\ front_matter = SubSeq(doc, FirstMarkerOrEnd(doc) - Len(front_matter),
                                        FirstMarkerOrEnd(doc) - 1)
          /\ Len(front_matter) + TotalLines(poems) + Cardinality(Markers(doc))
                <= Len(doc)

\* A finished run with a poem of two lines, its indented title line and a blank
\* one, and a signature that is not among them.
C15_Witness ==
    /\ pc = "done"
    /\ \E k \in 1..Len(poems) :
         /\ Len(poems[k].lines) = 2
         /\ poems[k].lines[1] # Trimmed(poems[k].lines[1])
         /\ poems[k].title = Trimmed(poems[k].lines[1])
         /\ IsBlank(poems[k].lines[2])
         /\ poems[k].has_author_sig
         /\ Cardinality(Span(doc, KthMarker(doc, k))) = 3

----------------------------------------------------------------------------
(* C16 *)

\* The scan has been through the first marker of the document.
PastFirstMarker ==
    /\ Markers(doc) # {}
    /\ \/ pc = "scan" /\ i > Min(Markers(doc))
       \/ Scanned

\* The run has not come to the first marker yet.
BeforeFirstMarker ==
    \/ pc = "start"
    \/ pc = "scan" /\ i < FirstMarkerOrEnd(doc)

\* C16: once the first marker has been processed no step changes the front
\* matter, whatever paragraph it processes; a step before the first marker
\* neither changes the poem collection nor creates a current poem.
C16_FrontMatterClosesAtFirstMarker ==
    [][/\ PastFirstMarker => front_matter' = front_matter
       /\ BeforeFirstMarker =>
             /\ poems = <<>> /\ poems' = <<>>
             /\ current_poem = NoPoem /\ current_poem' = NoPoem]_vars

\* A finished run whose document has a paragraph of front matter, then a marker,
\* a line and a signature: the front matter is the one paragraph before the
\* marker.
C16_Witness ==
    /\ pc = "done"
    /\ Markers(doc) = {2}
    /\ Len(doc) = 4
    /\ front_matter = <<doc[1]>>
    /\ Len(poems) = 1
    /\ Len(poems[1].lines) = 1
    /\ poems[1].has_author_sig

----------------------------------------------------------------------------
(* C17 *)

\* The title that the lines of a poem give it.
TitleFromLines(p) ==
    LET solid == {l \in 1..Len(p.lines) : ~IsBlank(p.lines[l])}
    IN  IF solid = {} THEN None ELSE Trimmed(p.lines[Min(solid)])

TitleMatchesLines(p) ==
    /\ p.title = None <=> \A l \in 1..Len(p.lines) : IsBlank(p.lines[l])
    /\ p.title = TitleFromLines(p)

\* C17: in every state, for the current poem and every finalized poem, the title
\* is None iff every line is blank, and otherwise it is the trimmed text of the
\* first non-blank line; so every poem that is written has a title, and its
\* metadata, heading and file name carry that title, never the fallbacks
\* "Untitled" and "Poem <number>".
C17_TitleIsFirstSolidLine ==
    /\ \A k \in 1..Len(poems) : TitleMatchesLines(poems[k])
    /\ current_poem # NoPoem => TitleMatchesLines(current_poem)
    /\ JustSaved =>
          LET p == poems[w - 1]
              c == files[poem_filename(p)]
              name == console[Len(console)].arg
          IN  /\ p.title # None /\ p.title # <<>>
              /\ LineOf(c, 2) = <<"t","i","t","l","e",":"," ","\"">>
                                   \o p.title \o <<"\"">>
              /\ LineOf(c, 7) = <<"#"," ">> \o p.title
              /\ name = poem_filename(p)
              /\ ~Contains(name, Untitled)

\* The file of a poem has just been written whose lines are a blank paragraph
\* and then an indented line, which gave the title.
C17_Witness ==
    /\ JustSaved
    /\ Len(poems[w - 1].lines) = 2
    /\ IsBlank(poems[w - 1].lines[1])
    /\ poems[w - 1].lines[1] # <<>>
    /\ poems[w - 1].title = Trimmed(poems[w - 1].lines[2])
    /\ poems[w - 1].title # poems[w - 1].lines[2]

====
